---------------------------- MODULE Spec2Model ----------------------------
(***************************************************************************)
(* A model of package gotracer (src/gotracer.go): the Status query of an   *)
(* EPsolar Tracer charge controller.  Status opens the serial port, runs   *)
(* five request/reply exchanges (queryStateCommand), each reply awaited by *)
(* readWithTimeout, copies every reply into one 120-byte buffer, decodes   *)
(* the buffer into a TracerStatus and closes the port.                     *)
(*                                                                         *)
(* Numbers.  TLC's integers are 32-bit signed, so a Go uint32 is kept as a *)
(* record [hi, lo] of two 16-bit halves, and a Go float32 as a record      *)
(* [neg, m, e] that stands for (-1)^neg * m * 2^e with a 24-bit mantissa   *)
(* 2^23 <= m < 2^24 (or m = 0, e = 0): the IEEE-754 binary32 values in the *)
(* range the program uses.  Conversions and divisions round to nearest,    *)
(* ties to even, as the Go build does.                                     *)
(***************************************************************************)
EXTENDS Integers, Sequences, FiniteSets, TLC

----------------------------------------------------------------------------
(* Bounds of the model (not program constants).                            *)

\* Replies longer than expected: a read may fill the whole 120-byte read
\* buffer in at most MaxLong of the exchanges of one call, and only in a call
\* without a write cut short silently.
MaxLong == 1
\* Writes cut short without an error: port.Write may report fewer bytes than
\* the frame and a nil error in the first MaxShort exchanges of a call, and
\* only in a call without a longer reply.
MaxShort == 1
\* time.Now() is drawn from 1..MaxClock.
MaxClock == 2
\* unpack is applied to slices of 1..MaxSliceLen bytes.
MaxSliceLen == 4

----------------------------------------------------------------------------
(* Program constants.                                                      *)

\* make([]byte, 120), in Status and in readWithTimeout.
BufLen == 120
\* The number of entries of queryStateCommand.
NumCommands == 5

\* queryStateCommand with the boundary between the third and the fourth reply
\* moved from position 68 to position 74.
queryStateCommand_Split ==
  << [data |-> <<1, 4, 50, 0, 0, 3, 190, 179>>,   respLen |-> 11, offset |-> 0],
     [data |-> <<1, 2, 32, 0, 0, 1, 178, 10>>,    respLen |-> 6,  offset |-> 11],
     [data |-> <<1, 67, 49, 0, 0, 27, 10, 242>>,  respLen |-> 57, offset |-> 17],
     [data |-> <<1, 4, 51, 26, 0, 3, 158, 136>>,  respLen |-> 5,  offset |-> 74],
     [data |-> <<1, 4, 51, 2, 0, 18, 222, 131>>,  respLen |-> 41, offset |-> 79] >>

\* queryStateCommand with the reply of the second command one position late in
\* the response buffer.
queryStateCommand_Shifted ==
  << [data |-> <<1, 4, 50, 0, 0, 3, 190, 179>>,   respLen |-> 11, offset |-> 0],
     [data |-> <<1, 2, 32, 0, 0, 1, 178, 10>>,    respLen |-> 6,  offset |-> 12],
     [data |-> <<1, 67, 49, 0, 0, 27, 10, 242>>,  respLen |-> 51, offset |-> 17],
     [data |-> <<1, 4, 51, 26, 0, 3, 158, 136>>,  respLen |-> 11, offset |-> 68],
     [data |-> <<1, 4, 51, 2, 0, 18, 222, 131>>,  respLen |-> 41, offset |-> 79] >>

\* queryStateCommand: the five request frames with the expected reply length
\* and the offset of the reply in the response buffer.
queryStateCommand ==
  << [data |-> <<1, 4, 50, 0, 0, 3, 190, 179>>,   respLen |-> 11, offset |-> 0],
     [data |-> <<1, 2, 32, 0, 0, 1, 178, 10>>,    respLen |-> 6,  offset |-> 11],
     [data |-> <<1, 67, 49, 0, 0, 27, 10, 242>>,  respLen |-> 51, offset |-> 17],
     [data |-> <<1, 4, 51, 26, 0, 3, 158, 136>>,  respLen |-> 11, offset |-> 68],
     [data |-> <<1, 4, 51, 2, 0, 18, 222, 131>>,  respLen |-> 41, offset |-> 79] >>

Commands == 1..NumCommands
Byte == 0..255

----------------------------------------------------------------------------
(* uint32 and float32 arithmetic.                                          *)

Pow2(n) == 2^n

\* F(x), with the argument x evaluated once, before F is applied to its value.
With(x, F(_)) == CHOOSE r \in {F(v) : v \in {x}} : TRUE

\* The number of significant bits of a natural number below 2^31.
RECURSIVE BitLen(_)
BitLen(n) == IF n = 0 THEN 0 ELSE 1 + BitLen(n \div 2)

\* A uint32 as two 16-bit halves: the value is hi * 65536 + lo.
U32(hi, lo) == [hi |-> hi, lo |-> lo]
U32Zero == U32(0, 0)
U32Bits(v) == IF v.hi = 0 THEN BitLen(v.lo) ELSE 16 + BitLen(v.hi)

\* uint32(b) << shift for a byte b: Go shifts bits out at the top and gives 0
\* for a shift of 32 or more.
U32ShlByte(b, shift) ==
  IF shift >= 32 THEN U32Zero
  ELSE IF shift >= 16 THEN U32((b * Pow2(shift - 16)) % 65536, 0)
  ELSE U32((b * Pow2(shift)) \div 65536, (b * Pow2(shift)) % 65536)

\* v + w on uint32: wraps modulo 2^32.
U32Add(v, w) ==
  LET lo == v.lo + w.lo
  IN  U32((v.hi + w.hi + lo \div 65536) % 65536, lo % 65536)

\* floor(v * 2^k / den) and the remainder's position against den / 2, for a
\* uint32 v: "cmp" is -1, 0 or 1 as the discarded part is below, at or above
\* one half.  For k >= 0 the product stays below 2^31 where it is used.
QuotRound(v, k, den) ==
  IF k >= 0
  THEN LET num == (v.hi * 65536 + v.lo) * Pow2(k)
           r == num % den
       IN  [q |-> num \div den,
            cmp |-> IF 2 * r < den THEN -1 ELSE IF 2 * r = den THEN 0 ELSE 1]
  ELSE LET d == den * Pow2(-k)
           mid == (v.hi % d) * 65536 + v.lo
           r == mid % d
       IN  [q |-> (v.hi \div d) * 65536 + mid \div d,
            cmp |-> IF 2 * r < d THEN -1 ELSE IF 2 * r = d THEN 0 ELSE 1]

\* The float32 zero.
F32Zero == [neg |-> FALSE, m |-> 0, e |-> 0]

\* Round to nearest, ties to even, of a 24-bit quotient q with exponent e.
F32Round(neg, qr, e) ==
  LET up(r) == r.cmp = 1 \/ (r.cmp = 0 /\ r.q % 2 = 1)
      rounded(r) == IF up(r) THEN r.q + 1 ELSE r.q
      float(m) == IF m = 16777216 THEN [neg |-> neg, m |-> 8388608, e |-> e + 1]
                  ELSE [neg |-> neg, m |-> m, e |-> e]
      round(r) == With(rounded(r), float)
  IN  With(qr, round)

\* The float32 nearest to (-1)^neg * v / den, for a uint32 v and 1 <= den <= 100:
\* the mantissa is v * 2^k / den for the k that puts it in 2^23 .. 2^24 - 1.
F32Nearest(neg, v, den) ==
  LET fits(w, k) == QuotRound(w, k, den).q < 16777216
      scaled(w, k0) == LET k == IF fits(w, k0) THEN k0 ELSE k0 - 1
                       IN  F32Round(neg, QuotRound(w, k, den), -k)
      nearest(w) == LET place(k0) == scaled(w, k0)
                    IN  IF w = U32Zero THEN F32Zero
                        ELSE With(24 + BitLen(den - 1) - U32Bits(w), place)
  IN  With(v, nearest)

\* float32(v) for a uint32 v (the conversion at the end of unpack).
F32FromU32(v) == F32Nearest(FALSE, v, 1)

\* float32 of an integer of magnitude below 2^24 (exact).
F32FromInt(n) ==
  IF n < 0 THEN F32Nearest(TRUE, U32((-n) \div 65536, (-n) % 65536), 1)
  ELSE F32Nearest(FALSE, U32(n \div 65536, n % 65536), 1)

\* x / d in float32, for a divisor 1 <= d <= 100: the quotient of the mantissa,
\* correctly rounded, with x's exponent.
F32DivInt(x, d) ==
  LET div(y) ==
        LET scale(q) == [q EXCEPT !.e = q.e + y.e]
        IN  IF y.m = 0 THEN F32Zero
            ELSE With(F32Nearest(y.neg, U32(y.m \div 65536, y.m % 65536), d),
                      scale)
  IN  With(x, div)

\* x > y in float32.
F32Gt(x, y) ==
  LET magGt(a, b) == /\ a.m # 0
                     /\ \/ b.m = 0
                        \/ a.e > b.e
                        \/ a.e = b.e /\ a.m > b.m
  IN  IF x.neg = y.neg
      THEN IF x.neg THEN magGt(y, x) ELSE magGt(x, y)
      ELSE y.neg /\ (x.m # 0 \/ y.m # 0)

\* The integer a float32 stands for, when it is one of magnitude below 2^24.
F32ToInt(x) ==
  LET mag == IF x.e >= 0 THEN x.m * Pow2(x.e) ELSE x.m \div Pow2(-x.e)
  IN  IF x.neg THEN -mag ELSE mag

\* x - n in float32 for integers x, n whose difference has a magnitude below
\* 2^24: the subtraction is exact.
F32SubInt(x, n) == F32FromInt(F32ToInt(x) - n)

----------------------------------------------------------------------------
(* unpack (src/gotracer.go, 186-193).                                      *)

\* The loop of unpack: v += uint32(b) << shift over the bytes of slice from
\* index i (1-based) on.
RECURSIVE unpackFrom(_, _, _)
unpackFrom(slice, i, v) ==
  LET next(w) == unpackFrom(slice, i + 1, w)
  IN  IF i > Len(slice) THEN v
      ELSE With(U32Add(v, U32ShlByte(slice[i], (Len(slice) - i) * 8)), next)

\* The uint32 accumulated by unpack's loop.
unpackBits(slice) == With(slice, LAMBDA s : unpackFrom(s, 1, U32Zero))

\* unpack: the bytes of slice as a float32, first byte highest.
unpack(slice) == F32FromU32(unpackBits(slice))

----------------------------------------------------------------------------
(* The response buffer and the decoding of Status (125-154).               *)

Positions == 0..(BufLen - 1)

\* make([]byte, 120): a zeroed buffer.
ZeroBuffer == [p \in Positions |-> 0]

\* buf[a:b] as a sequence of bytes.
Slice(buf, a, b) == [i \in 1..(b - a) |-> buf[a + i - 1]]

\* unpack(buffer[a:b]) / 100.
Scaled(buf, a, b) == F32DivInt(unpack(Slice(buf, a, b)), 100)

\* int(buffer[8]) == 1.
LoadFlag(buf) == buf[8] = 1

\* int32(buffer[65]).
BatterySOC(buf) == buf[65]

\* Battery current can be negative: bc := unpack(buffer[73:75]);
\* if bc > 32768 { bc = bc - 65536 }; bc / 100.
BatteryCurrent(buf) ==
  LET signed(bc) == IF F32Gt(bc, F32FromInt(32768))
                    THEN F32DivInt(F32SubInt(bc, 65536), 100)
                    ELSE F32DivInt(bc, 100)
  IN  With(unpack(Slice(buf, 73, 75)), signed)

\* The zero value of TracerStatus (the named result t before any assignment).
ZeroStatus ==
  [ArrayVoltage |-> F32Zero, ArrayCurrent |-> F32Zero, ArrayPower |-> F32Zero,
   BatteryVoltage |-> F32Zero, BatteryCurrent |-> F32Zero, BatterySOC |-> 0,
   BatteryTemp |-> F32Zero, BatteryMaxVoltage |-> F32Zero,
   BatteryMinVoltage |-> F32Zero, DeviceTemp |-> F32Zero,
   LoadVoltage |-> F32Zero, LoadCurrent |-> F32Zero, LoadPower |-> F32Zero,
   Load |-> FALSE,
   EnergyConsumedDaily |-> F32Zero, EnergyConsumedMonthly |-> F32Zero,
   EnergyConsumedAnnual |-> F32Zero, EnergyConsumedTotal |-> F32Zero,
   EnergyGeneratedDaily |-> F32Zero, EnergyGeneratedMonthly |-> F32Zero,
   EnergyGeneratedAnnual |-> F32Zero, EnergyGeneratedTotal |-> F32Zero,
   Timestamp |-> 0]

\* The assignments of lines 125-154: the snapshot decoded from buf at time now.
Decode(buf, now) ==
  [ArrayVoltage |-> Scaled(buf, 24, 26),
   ArrayCurrent |-> Scaled(buf, 26, 28),
   ArrayPower |-> Scaled(buf, 28, 30),
   BatteryVoltage |-> Scaled(buf, 32, 34),
   BatteryCurrent |-> BatteryCurrent(buf),
   BatterySOC |-> BatterySOC(buf),
   BatteryTemp |-> Scaled(buf, 56, 58),
   BatteryMaxVoltage |-> Scaled(buf, 82, 84),
   BatteryMinVoltage |-> Scaled(buf, 84, 86),
   DeviceTemp |-> Scaled(buf, 58, 60),
   LoadVoltage |-> Scaled(buf, 40, 42),
   LoadCurrent |-> Scaled(buf, 42, 44),
   LoadPower |-> Scaled(buf, 44, 46),
   Load |-> LoadFlag(buf),
   EnergyConsumedDaily |-> Scaled(buf, 86, 88),
   EnergyConsumedMonthly |-> Scaled(buf, 88, 92),
   EnergyConsumedAnnual |-> Scaled(buf, 92, 96),
   EnergyConsumedTotal |-> Scaled(buf, 96, 100),
   EnergyGeneratedDaily |-> Scaled(buf, 100, 104),
   EnergyGeneratedMonthly |-> Scaled(buf, 104, 108),
   EnergyGeneratedAnnual |-> Scaled(buf, 108, 112),
   EnergyGeneratedTotal |-> Scaled(buf, 112, 116),
   Timestamp |-> now]

\* CopyAt with the destination one position late: copy(dst[off+1:], src).
CopyAt_OffByOne(dst, off, src) ==
  LET copy(b) == [p \in Positions |-> IF p > off THEN b[p - off - 1] ELSE dst[p]]
  IN  With(src, copy)

\* copy(dst[off:], src) for two 120-byte slices: min(120 - off, 120) bytes.
CopyAt(dst, off, src) ==
  LET copy(b) == [p \in Positions |-> IF p >= off THEN b[p - off] ELSE dst[p]]
  IN  With(src, copy)

----------------------------------------------------------------------------
(* State.                                                                  *)

VARIABLES
  pc,          \* where Status is: NotStarted, Sending, SpawnReader,
               \* SpawnSleeper, Awaiting, Placing, Decoding, Closing, Returned
               \* (and UnpackCall, UnpackDone for a call of unpack alone)
  step,        \* the index (1..5) of the command of the loop's iteration
  port,        \* the serial port: "unopened", "open" or "closed"
  closeCount,  \* the calls of port.Close
  written,     \* the calls of port.Write, in order: [data, n, err]
  buffer,      \* Status's response buffer
  t,           \* the named result t
  err,         \* the named result err: "nil" or an error
  reader,      \* per exchange, the goroutine readAndCallBack: "none",
               \* "reading", "sending" (blocked in done <- err), "exited"
  sleeper,     \* per exchange, the goroutine sleepAndCallBack: "none",
               \* "sleeping", "sending" (blocked in timeout <- true), "exited"
  nread,       \* per exchange, the bytes io.ReadAtLeast put into buf
  rerr,        \* per exchange, the error io.ReadAtLeast returned
  expiredFirst,\* per exchange, whether time.Sleep returned before the read had
               \* delivered its expected bytes
  image,       \* what the device answers: the bytes of the five replies, each
               \* at its offset
  slice,       \* the argument of a call of unpack alone
  result       \* its result

vars == <<pc, step, port, closeCount, written, buffer, t, err, reader, sleeper,
          nread, rerr, expiredFirst, image, slice, result>>

statusVars == <<pc, step, port, closeCount, written, buffer, t, err>>
routineVars == <<reader, sleeper, nread, rerr, expiredFirst>>
inputVars == <<image, slice, result>>

\* Byte k of the device's reply to command d: the image's bytes for the
\* expected length, and a filler for what a longer reply carries after them.
ReplyByte(d, k) ==
  IF k < queryStateCommand[d].respLen
  THEN image[queryStateCommand[d].offset + k]
  ELSE 255

\* buf of the call of readWithTimeout for command d: make([]byte, 120) with
\* the nread[d] bytes read so far.
Buf(d) == [k \in Positions |-> IF k < nread[d] THEN ReplyByte(d, k) ELSE 0]

----------------------------------------------------------------------------
(* Inputs.                                                                 *)

\* The device image of a Status call: every byte between 1 and 254, so that a
\* reply byte is told from the zeroed buffer and from the filler.
PatternImage == [p \in Positions |-> ((p * 7) % 254) + 1]

\* The exchanges whose read delivered more than the expected length.
LongReads == {d \in Commands : nread[d] > queryStateCommand[d].respLen}

\* The exchanges whose write returned fewer bytes than the frame and a nil
\* error.
ShortWrites ==
  {i \in 1..Len(written) :
     written[i].n < Len(written[i].data) /\ written[i].err = "nil"}

\* The byte counts a successful io.ReadAtLeast(r, buf, n) may deliver: n, or
\* the whole of buf.
GoodLengths(n) ==
  {n} \cup (IF ShortWrites = {} /\ Cardinality(LongReads) < MaxLong
            THEN {BufLen} ELSE {})

\* The outcomes of a failed io.ReadAtLeast(r, buf, n): fewer than n bytes and
\* io.EOF (no byte), io.ErrUnexpectedEOF (some) or the transport's error.
ReadFailures(n) ==
  { [n |-> 0, err |-> "EOF"], [n |-> n - 1, err |-> "ErrUnexpectedEOF"],
    [n |-> 0, err |-> "ReadError"], [n |-> n - 1, err |-> "ReadError"] }

\* The outcomes (n, err) of port.Write(data): all of data and no error, fewer
\* bytes and an error, or fewer bytes and no error.  Status keeps err and
\* drops n, so nothing in the program excludes the last one.
WriteOutcomes(data) ==
  { [n |-> Len(data), err |-> "nil"], [n |-> 0, err |-> "WriteError"],
    [n |-> Len(data) - 1, err |-> "WriteError"] }
  \cup (IF LongReads = {} /\ Len(written) < MaxShort
        THEN {[n |-> Len(data) - 1, err |-> "nil"]} ELSE {})

----------------------------------------------------------------------------
(* Status (97-157).                                                        *)

Init ==
  /\ pc = "NotStarted"
  /\ step = 0
  /\ port = "unopened"
  /\ closeCount = 0
  /\ written = << >>
  /\ buffer = ZeroBuffer
  /\ t = ZeroStatus
  /\ err = "nil"
  /\ reader = [d \in Commands |-> "none"]
  /\ sleeper = [d \in Commands |-> "none"]
  /\ nread = [d \in Commands |-> 0]
  /\ rerr = [d \in Commands |-> "nil"]
  /\ expiredFirst = [d \in Commands |-> FALSE]
  /\ image = PatternImage
  /\ slice = << >>
  /\ result = F32Zero

\* port, err = serial.Open(options); if err != nil { return };
\* defer port.Close(); buffer := make([]byte, 120).
Open ==
  /\ pc = "NotStarted"
  /\ \/ /\ port' = "open"
        /\ pc' = "Sending"
        /\ step' = 1
        /\ buffer' = ZeroBuffer
        /\ UNCHANGED err
     \/ /\ err' = "OpenError"
        /\ pc' = "Returned"
        /\ UNCHANGED <<port, step, buffer>>
  /\ UNCHANGED <<closeCount, written, t>>
  /\ UNCHANGED routineVars
  /\ UNCHANGED inputVars

\* AfterWrite with the error of the write ignored.
AfterWrite_IgnoreError(e) == "SpawnReader"

\* if _, err = port.Write(r.data); err != nil { return }: where Status goes
\* after the write.
AfterWrite(e) == IF e # "nil" THEN "Closing" ELSE "SpawnReader"

\* One call of port.Write with the request frame of the iteration.
WriteFrame ==
  /\ pc = "Sending"
  /\ \E o \in WriteOutcomes(queryStateCommand[step].data) :
       /\ written' = Append(written, [data |-> queryStateCommand[step].data,
                                      n |-> o.n, err |-> o.err])
       /\ err' = o.err
       /\ pc' = AfterWrite(o.err)
  /\ UNCHANGED <<step, port, closeCount, buffer, t>>
  /\ UNCHANGED routineVars
  /\ UNCHANGED inputVars

----------------------------------------------------------------------------
(* readWithTimeout (159-181).                                              *)

\* buf := make([]byte, 120); done := make(chan error); go readAndCallBack().
StartReader ==
  /\ pc = "SpawnReader"
  /\ reader' = [reader EXCEPT ![step] = "reading"]
  /\ pc' = "SpawnSleeper"
  /\ UNCHANGED <<step, port, closeCount, written, buffer, t, err>>
  /\ UNCHANGED <<sleeper, nread, rerr, expiredFirst>>
  /\ UNCHANGED inputVars

\* StartSleeper without the go statement: no timer runs.
StartSleeper_NoTimer ==
  /\ pc = "SpawnSleeper"
  /\ pc' = "Awaiting"
  /\ UNCHANGED <<step, port, closeCount, written, buffer, t, err>>
  /\ UNCHANGED routineVars
  /\ UNCHANGED inputVars

\* timeout := make(chan bool); go sleepAndCallBack().
StartSleeper ==
  /\ pc = "SpawnSleeper"
  /\ sleeper' = [sleeper EXCEPT ![step] = "sleeping"]
  /\ pc' = "Awaiting"
  /\ UNCHANGED <<step, port, closeCount, written, buffer, t, err>>
  /\ UNCHANGED <<reader, nread, rerr, expiredFirst>>
  /\ UNCHANGED inputVars

\* readAndCallBack: _, err := io.ReadAtLeast(r, buf, n) returns, with at least
\* n bytes and no error; the goroutine goes on to done <- err.
ReadSucceeds(d) ==
  /\ reader[d] = "reading"
  /\ \E m \in GoodLengths(queryStateCommand[d].respLen) :
       nread' = [nread EXCEPT ![d] = m]
  /\ rerr' = [rerr EXCEPT ![d] = "nil"]
  /\ reader' = [reader EXCEPT ![d] = "sending"]
  /\ UNCHANGED statusVars
  /\ UNCHANGED <<sleeper, expiredFirst>>
  /\ UNCHANGED inputVars

\* readAndCallBack: io.ReadAtLeast returns an error, with fewer than n bytes.
ReadFails(d) ==
  /\ reader[d] = "reading"
  /\ \E o \in ReadFailures(queryStateCommand[d].respLen) :
       /\ nread' = [nread EXCEPT ![d] = o.n]
       /\ rerr' = [rerr EXCEPT ![d] = o.err]
  /\ reader' = [reader EXCEPT ![d] = "sending"]
  /\ UNCHANGED statusVars
  /\ UNCHANGED <<sleeper, expiredFirst>>
  /\ UNCHANGED inputVars

\* sleepAndCallBack: time.Sleep(2e9) returns; the goroutine goes on to
\* timeout <- true.  time.Sleep pauses for at least two seconds and nothing
\* orders one sleeper's return against another's.
TimerExpires(d) ==
  /\ sleeper[d] = "sleeping"
  /\ sleeper' = [sleeper EXCEPT ![d] = "sending"]
  /\ expiredFirst' = [expiredFirst EXCEPT
                        ![d] = ~(reader[d] \in {"sending", "exited"}
                                 /\ rerr[d] = "nil")]
  /\ UNCHANGED statusVars
  /\ UNCHANGED <<reader, nread, rerr>>
  /\ UNCHANGED inputVars

\* AfterRead with the error of the read ignored.
AfterRead_IgnoreError(e) == "Placing"

\* AfterRead returning without the deferred port.Close().
AfterRead_NoDefer(e) == IF e # "nil" THEN "Returned" ELSE "Placing"

\* AfterRead leaving the loop on an error (break) instead of returning.
AfterRead_Break(e) == IF e # "nil" THEN "Decoding" ELSE "Placing"

\* if b, err = readWithTimeout(port, r.respLen); err != nil { return }: where
\* Status goes after the call.
AfterRead(e) == IF e # "nil" THEN "Closing" ELSE "Placing"

\* select, case err := <-done: return buf, err.  The reader's send completes.
SelectDone ==
  /\ pc = "Awaiting"
  /\ reader[step] = "sending"
  /\ reader' = [reader EXCEPT ![step] = "exited"]
  /\ err' = rerr[step]
  /\ pc' = AfterRead(rerr[step])
  /\ UNCHANGED <<step, port, closeCount, written, buffer, t>>
  /\ UNCHANGED <<sleeper, nread, rerr, expiredFirst>>
  /\ UNCHANGED inputVars

\* TimeoutError with no error returned by the timeout case.
TimeoutError_Nil == "nil"

\* The error of select's timeout case.
TimeoutError == "Timed out."

\* SelectTimeout without the wait for the sleeper's signal: the timeout case
\* taken while the two seconds are still running.
SelectTimeout_Early ==
  /\ pc = "Awaiting"
  /\ sleeper[step] \in {"sleeping", "sending"}
  /\ sleeper' = [sleeper EXCEPT ![step] =
                   IF sleeper[step] = "sending" THEN "exited" ELSE "sleeping"]
  /\ err' = TimeoutError
  /\ pc' = AfterRead(TimeoutError)
  /\ UNCHANGED <<step, port, closeCount, written, buffer, t>>
  /\ UNCHANGED <<reader, nread, rerr, expiredFirst>>
  /\ UNCHANGED inputVars

\* select, case <-timeout: return nil, errors.New("Timed out.").  The
\* sleeper's send completes.
SelectTimeout ==
  /\ pc = "Awaiting"
  /\ sleeper[step] = "sending"
  /\ sleeper' = [sleeper EXCEPT ![step] = "exited"]
  /\ err' = TimeoutError
  /\ pc' = AfterRead(TimeoutError)
  /\ UNCHANGED <<step, port, closeCount, written, buffer, t>>
  /\ UNCHANGED <<reader, nread, rerr, expiredFirst>>
  /\ UNCHANGED inputVars

----------------------------------------------------------------------------
(* Status, after the exchange.                                             *)

\* Placed as an assignment of the reply buffer: buffer = b.
Placed_Assign(buf, d) == Buf(d)

\* Placed with the offset of the command left out: copy(buffer, b).
Placed_NoOffset(buf, d) == CopyAt(buf, 0, Buf(d))

\* The buffer after copy(buffer[r.offset:], b), b being buf of the exchange.
Placed(buf, d) == CopyAt(buf, queryStateCommand[d].offset, Buf(d))

\* Where the loop goes after the copy: the next command, or the decoding.
AfterPlace(d) == IF d < NumCommands THEN "Sending" ELSE "Decoding"

\* copy(buffer[r.offset:], b), and the loop's next iteration.
Place ==
  /\ pc = "Placing"
  /\ buffer' = Placed(buffer, step)
  /\ pc' = AfterPlace(step)
  /\ step' = IF step < NumCommands THEN step + 1 ELSE step
  /\ UNCHANGED <<port, closeCount, written, t, err>>
  /\ UNCHANGED routineVars
  /\ UNCHANGED inputVars

\* t.Timestamp = time.Now().UTC() and the decoding of the fields; return.
\* (Only Timestamp depends on the clock: the other fields are computed once
\* for all the values of now.)
DecodeStep ==
  /\ pc = "Decoding"
  /\ pc' = "Closing"
  /\ UNCHANGED <<step, port, closeCount, written, buffer, err>>
  /\ UNCHANGED routineVars
  /\ UNCHANGED inputVars
  /\ LET fields == Decode(buffer, 0)
     IN  \E now \in 1..MaxClock : t' = [fields EXCEPT !.Timestamp = now]

\* The deferred port.Close(), run as Status returns.
Close ==
  /\ pc = "Closing"
  /\ port' = "closed"
  /\ closeCount' = closeCount + 1
  /\ pc' = "Returned"
  /\ UNCHANGED <<step, written, buffer, t, err>>
  /\ UNCHANGED routineVars
  /\ UNCHANGED inputVars

Routines ==
  \E d \in Commands : ReadSucceeds(d) \/ ReadFails(d) \/ TimerExpires(d)

Next ==
  \/ Open \/ WriteFrame \/ StartReader \/ StartSleeper
  \/ SelectDone \/ SelectTimeout \/ Place \/ DecodeStep \/ Close
  \/ Routines

Spec == Init /\ [][Next]_vars

\* Status's own steps (the goroutine that called it).
StatusStep ==
  \/ Open \/ WriteFrame \/ StartReader \/ StartSleeper
  \/ SelectDone \/ SelectTimeout \/ Place \/ DecodeStep \/ Close

\* Spec with the scheduling the Go runtime gives: Status's goroutine runs
\* when it can, and a sleeping goroutine wakes up when its two seconds are
\* over.  Nothing makes the device answer: no fairness for the reads.
SpecFair ==
  /\ Init
  /\ [][Next]_vars
  /\ WF_vars(StatusStep)
  /\ \A d \in Commands : WF_vars(TimerExpires(d))

----------------------------------------------------------------------------
(* unpack alone: a call on a slice drawn from bounded sets.                *)

\* The byte values of the slices.
UnpackBytes == {0, 1, 2, 100, 128, 255}

UnpackSlices == UNION {[1..n -> UnpackBytes] : n \in 1..MaxSliceLen}

InitUnpack ==
  /\ pc = "UnpackCall"
  /\ slice \in UnpackSlices
  /\ result = F32Zero
  /\ step = 0
  /\ port = "unopened"
  /\ closeCount = 0
  /\ written = << >>
  /\ buffer = ZeroBuffer
  /\ t = ZeroStatus
  /\ err = "nil"
  /\ reader = [d \in Commands |-> "none"]
  /\ sleeper = [d \in Commands |-> "none"]
  /\ nread = [d \in Commands |-> 0]
  /\ rerr = [d \in Commands |-> "nil"]
  /\ expiredFirst = [d \in Commands |-> FALSE]
  /\ image = ZeroBuffer

\* result := unpack(slice).
UnpackCall ==
  /\ pc = "UnpackCall"
  /\ result' = unpack(slice)
  /\ pc' = "UnpackDone"
  /\ UNCHANGED <<step, port, closeCount, written, buffer, t, err>>
  /\ UNCHANGED routineVars
  /\ UNCHANGED <<image, slice>>

NextUnpack == UnpackCall

SpecUnpack == InitUnpack /\ [][NextUnpack]_vars

----------------------------------------------------------------------------
(* The decoding alone: Status after its fifth copy, on buffers drawn from  *)
(* bounded sets.                                                           *)

LoadBytes == {0, 1, 2, 255}
SOCBytes == {0, 80, 255}
FieldPairs == {<<0, 0>>, <<0, 100>>, <<4, 210>>, <<127, 255>>, <<128, 0>>,
               <<255, 255>>}
CurrentPairs == {<<0, 0>>, <<4, 210>>, <<127, 255>>, <<128, 0>>, <<128, 1>>,
                 <<255, 255>>}
FieldQuads == {<<0, 0, 0, 0>>, <<0, 0, 4, 210>>, <<0, 255, 255, 255>>,
               <<1, 0, 0, 0>>, <<1, 0, 0, 1>>, <<255, 255, 255, 255>>}

\* The two-byte fields of the field map other than the battery current, and
\* the four-byte fields, as [from, to) ranges.
TwoByteFields == {<<24, 26>>, <<26, 28>>, <<28, 30>>, <<32, 34>>, <<40, 42>>,
                  <<42, 44>>, <<44, 46>>, <<56, 58>>, <<58, 60>>, <<82, 84>>,
                  <<84, 86>>, <<86, 88>>}
FourByteFields == {<<88, 92>>, <<92, 96>>, <<96, 100>>, <<100, 104>>,
                   <<104, 108>>, <<108, 112>>, <<112, 116>>}

\* A device image with the given load byte, state of charge byte, battery
\* current bytes, and the same bytes in every other field of a width.
DecodeImage(load, soc, bc, pair, quad) ==
  [p \in Positions |->
     IF p = 8 THEN load
     ELSE IF p = 65 THEN soc
     ELSE IF p \in {73, 74} THEN bc[p - 72]
     ELSE IF \E f \in TwoByteFields : f[1] <= p /\ p < f[2] THEN pair[(p % 2) + 1]
     ELSE IF \E f \in FourByteFields : f[1] <= p /\ p < f[2] THEN quad[(p % 4) + 1]
     ELSE 0]

DecodeImages ==
  {DecodeImage(load, soc, bc, pair, quad) :
     load \in LoadBytes, soc \in SOCBytes, bc \in CurrentPairs,
     pair \in FieldPairs, quad \in FieldQuads}

\* Status as it enters the decoding: five exchanges done, each reply of its
\* expected length and copied to its offset.
InitDecode ==
  /\ pc = "Decoding"
  /\ image \in DecodeImages
  /\ buffer = image
  /\ step = NumCommands
  /\ port = "open"
  /\ closeCount = 0
  /\ written = [d \in Commands |->
                  [data |-> queryStateCommand[d].data,
                   n |-> Len(queryStateCommand[d].data), err |-> "nil"]]
  /\ t = ZeroStatus
  /\ err = "nil"
  /\ reader = [d \in Commands |-> "exited"]
  /\ sleeper = [d \in Commands |-> "sleeping"]
  /\ nread = [d \in Commands |-> queryStateCommand[d].respLen]
  /\ rerr = [d \in Commands |-> "nil"]
  /\ expiredFirst = [d \in Commands |-> FALSE]
  /\ slice = << >>
  /\ result = F32Zero

NextDecode == DecodeStep \/ Close

SpecDecode == InitDecode /\ [][NextDecode]_vars

----------------------------------------------------------------------------
(* What the claims speak of.                                               *)

respLen(d) == queryStateCommand[d].respLen
offset(d) == queryStateCommand[d].offset

\* The region of descriptor d in the response buffer: respLen positions from
\* its offset.
Region(d) == offset(d)..(offset(d) + respLen(d) - 1)

\* The byte ranges [from, to) of the response buffer that the decoding
\* reads: the load flag, the state of charge, the battery current, and the
\* two-byte and four-byte fields.
FieldRanges ==
  TwoByteFields \cup FourByteFields \cup {<<8, 9>>, <<65, 66>>, <<73, 75>>}

\* buf with every byte outside the field ranges set to zero.
Masked(buf) ==
  [p \in Positions |->
     IF \E f \in FieldRanges : f[1] <= p /\ p < f[2] THEN buf[p] ELSE 0]

\* The positions of the response buffer that copy(buffer[r.offset:], b)
\* writes for descriptor d: min(120 - offset, 120) positions from the offset.
CopyDest(d) ==
  LET n == IF BufLen - offset(d) < BufLen THEN BufLen - offset(d) ELSE BufLen
  IN  {offset(d) + k : k \in 0..(n - 1)}

\* Status has returned / is returning (only the deferred Close is left).
Returning == pc \in {"Closing", "Returned"}

\* The wait of exchange i is over: readWithTimeout was called for it and has
\* returned.
WaitOver(i) ==
  /\ reader[i] # "none"
  /\ step > i \/ (step = i /\ pc \in {"Placing", "Decoding", "Closing", "Returned"})

\* The read of exchange d returned at least the expected bytes and no error
\* before the two seconds of its timer were over.
ReadFirst(d) ==
  /\ reader[d] \in {"sending", "exited"}
  /\ rerr[d] = "nil"
  /\ ~expiredFirst[d]

\* The reply of exchange j lies in the response buffer, at its offset.
ReplyPlaced(j) ==
  \A k \in 0..(respLen(j) - 1) : buffer[offset(j) + k] = ReplyByte(j, k)

\* The copy of the reply of exchange j into the response buffer has been done.
HasBeenPlaced(j) ==
  \/ step > j
  \/ /\ step = j
     /\ pc \in {"Decoding", "Closing", "Returned"}
     /\ reader[j] = "exited"
     /\ rerr[j] = "nil"

\* Exchange j has completed successfully: its write returned no error, its
\* read returned at least the expected bytes and no error, and its reply was
\* placed.
ExchangeDone(j) ==
  /\ written[j].err = "nil"
  /\ reader[j] = "exited"
  /\ rerr[j] = "nil"
  /\ nread[j] >= respLen(j)
  /\ ReplyPlaced(j)

\* The big-endian unsigned integer of a slice of one to four bytes, as the
\* two 16-bit halves of its value.
BigEndian(s) ==
  LET b(i) == IF i > 4 - Len(s) THEN s[i - (4 - Len(s))] ELSE 0
  IN  U32(b(1) * 256 + b(2), b(3) * 256 + b(4))

\* The non-negative number a float32 stands for, as hi * 65536 + lo, when it
\* is an integer; hi is 65536 for 2^32.
F32Value(x) ==
  IF x.e >= 0
  THEN LET lo == (x.m % 65536) * Pow2(x.e)
       IN  [hi |-> (x.m \div 65536) * Pow2(x.e) + lo \div 65536,
            lo |-> lo % 65536, whole |-> TRUE]
  ELSE [hi |-> (x.m \div Pow2(-x.e)) \div 65536,
        lo |-> (x.m \div Pow2(-x.e)) % 65536,
        whole |-> x.m % Pow2(-x.e) = 0]

\* x stands for exactly the unsigned integer v.
F32Is(x, v) ==
  /\ ~x.neg
  /\ F32Value(x) = [hi |-> v.hi, lo |-> v.lo, whole |-> TRUE]

\* The float32 of n / 100 for an integer n of magnitude below 2^31: what a
\* value of n hundredths decodes to (12.34 for 1234).
Hundredths(n) ==
  IF n < 0 THEN F32Nearest(TRUE, U32((-n) \div 65536, (-n) % 65536), 100)
  ELSE F32Nearest(FALSE, U32(n \div 65536, n % 65536), 100)

----------------------------------------------------------------------------
(* The claims.                                                             *)

\* C1: request frames are written in Frame Table order, each at most once, and
\* the frame of exchange j + 1 is written only after exchange j has completed
\* successfully (write without error, read of at least the expected bytes
\* without error, reply placed in the response buffer).
C1_OrderedExchanges ==
  /\ Len(written) <= NumCommands
  /\ \A j \in 1..Len(written) : written[j].data = queryStateCommand[j].data
  /\ \A j \in 1..(Len(written) - 1) : ExchangeDone(j)

\* C1's case: all five frames written, one of the replies longer than expected.
C1_Witness ==
  /\ Len(written) = NumCommands
  /\ LongReads # {}

\* C2 as stated: if the read of exchange i has not reached its expected length
\* when the two-second timer expires, Status returns the timeout error and no
\* frame of an exchange j > i is ever written.
C2_Original ==
  \A i \in Commands :
    expiredFirst[i] =>
      /\ Len(written) <= i
      /\ pc = "Returned" => err = TimeoutError

\* C2, amended: if the wait of exchange i is resolved by the timer's signal,
\* which is the case whenever the read has delivered neither its bytes nor an
\* error when the wait is resolved, Status returns the timeout error and no
\* frame of an exchange j > i is ever written.
C2_TimeoutAborts ==
  \A i \in Commands :
    /\ (WaitOver(i) /\ reader[i] = "reading") => sleeper[i] = "exited"
    /\ sleeper[i] = "exited" =>
         /\ Returning
         /\ err = TimeoutError
         /\ step = i
         /\ Len(written) = i

\* C2's case: Status has returned on the timeout of the third exchange, whose
\* read is still running.
C2_Witness ==
  /\ pc = "Returned"
  /\ step = 3
  /\ sleeper[3] = "exited"
  /\ reader[3] = "reading"

\* C3: if the write of frame i fails, Status returns that error, the transport
\* has received exactly i write calls, no read is started for exchange i and
\* no later frame is sent.
C3_WriteFailureAborts ==
  \A i \in 1..Len(written) :
    written[i].err # "nil" =>
      /\ Returning
      /\ err = written[i].err
      /\ Len(written) = i
      /\ reader[i] = "none"
      /\ sleeper[i] = "none"

\* C3's case: the write of the first command failed and Status has returned,
\* with one write call on the transport.
C3_Witness ==
  /\ pc = "Returned"
  /\ Len(written) = 1
  /\ written[1].err # "nil"

\* C4: once opened, the transport is closed exactly once before Status returns,
\* on every path, and not before; when opening fails Status returns the open
\* error without any write, read or close.
C4_ClosedOnce ==
  /\ pc = "Returned" /\ port # "unopened" => port = "closed" /\ closeCount = 1
  /\ pc # "Returned" => port # "closed" /\ closeCount = 0
  /\ (port = "unopened" /\ pc # "NotStarted") =>
       /\ pc = "Returned"
       /\ err = "OpenError"
       /\ closeCount = 0
       /\ written = << >>
       /\ \A d \in Commands : reader[d] = "none"

\* C4's case: Status has returned after a read error in the second exchange,
\* the port closed once.
C4_Witness ==
  /\ pc = "Returned"
  /\ step = 2
  /\ err \in {"EOF", "ErrUnexpectedEOF", "ReadError"}
  /\ closeCount = 1

\* C5: no partial snapshot: the fields and the timestamp are set only after all
\* five exchanges have succeeded and been placed, and whenever Status returns
\* an error every field of the snapshot has its zero value.
C5_NoPartialSnapshot ==
  /\ err # "nil" => t = ZeroStatus
  /\ t # ZeroStatus =>
       /\ Len(written) = NumCommands
       /\ \A d \in Commands : ExchangeDone(d)

\* C5's case: Status has returned an error from the fourth exchange, after
\* three exchanges that succeeded.
C5_Witness ==
  /\ pc = "Returned"
  /\ err # "nil"
  /\ step = 4
  /\ \A d \in 1..3 : ExchangeDone(d)

\* C6: with five replies of exactly the declared lengths, after the fifth
\* exchange buffer[offset_d + k] = reply_d[k] for every descriptor d and every
\* k below its length.
C6_BufferPlacement ==
  (/\ pc \in {"Decoding", "Closing", "Returned"}
   /\ step = NumCommands
   /\ err = "nil"
   /\ \A d \in Commands : nread[d] = respLen(d))
  => \A d \in Commands : ReplyPlaced(d)

\* C6's case: the fifth reply has been placed, every reply of its declared
\* length.
C6_Witness ==
  /\ pc = "Decoding"
  /\ \A d \in Commands : reader[d] = "exited" /\ nread[d] = respLen(d)

\* C7: the battery current is the 16-bit two's complement value of bytes 73 and
\* 74 in hundredths: raw r decodes to r / 100 for r <= 32767 and to
\* (r - 65536) / 100 for r >= 32768 (32768 decodes as -327.68).
C7_BatteryCurrentSigned ==
  (Returning /\ err = "nil") =>
    LET r == buffer[73] * 256 + buffer[74]
    IN  t.BatteryCurrent = Hundredths(IF r <= 32767 THEN r ELSE r - 65536)

\* C8: for a slice of 1 to 4 bytes unpack gives the big-endian unsigned integer
\* of the slice, without wrap-around or loss.
C8_UnpackBigEndian ==
  (pc = "UnpackDone" /\ Len(slice) \in 1..4) => F32Is(result, BigEndian(slice))

\* C9: the snapshot is the field map applied to the buffer: Load is byte 8 = 1,
\* BatterySOC is byte 65 unscaled, and every other field but the battery
\* current is the big-endian unsigned value of its bytes divided by 100.
C9_FieldMap ==
  (Returning /\ err = "nil") =>
    LET f(a, b) == F32Nearest(FALSE, BigEndian(Slice(buffer, a, b)), 100)
    IN  /\ t.Load = (buffer[8] = 1)
        /\ t.BatterySOC = buffer[65]
        /\ t.ArrayVoltage = f(24, 26)
        /\ t.ArrayCurrent = f(26, 28)
        /\ t.ArrayPower = f(28, 30)
        /\ t.BatteryVoltage = f(32, 34)
        /\ t.LoadVoltage = f(40, 42)
        /\ t.LoadCurrent = f(42, 44)
        /\ t.LoadPower = f(44, 46)
        /\ t.BatteryTemp = f(56, 58)
        /\ t.DeviceTemp = f(58, 60)
        /\ t.BatteryMaxVoltage = f(82, 84)
        /\ t.BatteryMinVoltage = f(84, 86)
        /\ t.EnergyConsumedDaily = f(86, 88)
        /\ t.EnergyConsumedMonthly = f(88, 92)
        /\ t.EnergyConsumedAnnual = f(92, 96)
        /\ t.EnergyConsumedTotal = f(96, 100)
        /\ t.EnergyGeneratedDaily = f(100, 104)
        /\ t.EnergyGeneratedMonthly = f(104, 108)
        /\ t.EnergyGeneratedAnnual = f(108, 112)
        /\ t.EnergyGeneratedTotal = f(112, 116)

\* C10: every call of Status eventually returns, even when the device never
\* sends a byte (the timer goroutines and Status's own steps being scheduled).
C10_Terminates == <>(pc = "Returned")

\* C10's case: Status has returned although no byte arrived in any read.
C10_Witness ==
  /\ pc = "Returned"
  /\ step = 1
  /\ reader[1] = "reading"
  /\ \A d \in Commands : nread[d] = 0

\* C11: a short write is surfaced at once: if the transport accepted fewer
\* bytes than the length of request frame i, the write returned an error,
\* Status returns that error, no read is started for the exchange, and the
\* frame is not sent again (the short write is the last call of port.Write).
\* (Status tests the error of port.Write and drops its byte count: a write
\* that reports fewer bytes with a nil error passes for a full one.)
C11_ShortWriteSurfaced ==
  \A i \in 1..Len(written) :
    written[i].n < Len(written[i].data) =>
      /\ written[i].err # "nil"
      /\ Returning
      /\ err = written[i].err
      /\ reader[i] = "none"
      /\ nread[i] = 0
      /\ Len(written) = i
      /\ \A j \in 1..Len(written) : written[j].data = written[i].data => j = i

\* C12 as stated: the wait takes whichever of the read and the timer resolves
\* first: a read that returned at least the expected bytes before the timer
\* expired is what readWithTimeout returns, never the timeout error; the
\* timeout error is returned only when the timer expired before the read
\* completed; and a call has exactly one outcome.
C12_Original ==
  \A d \in Commands :
    /\ ReadFirst(d) => sleeper[d] # "exited"
    /\ (ReadFirst(d) /\ WaitOver(d)) => reader[d] = "exited"
    /\ sleeper[d] = "exited" => expiredFirst[d]
    /\ ~(reader[d] = "exited" /\ sleeper[d] = "exited")

\* C12, amended: a call of readWithTimeout has exactly one outcome, that of
\* the one signal its select received: the reader's (the bytes and the
\* read's error; no error only with at least the expected bytes) or the
\* sleeper's (the timeout error).  The timeout error is returned only after
\* the timer expired, and the read's result only after the read returned;
\* when the wait ends with the timer still running the outcome is the read's.
C12_OneOutcome ==
  \A d \in Commands :
    /\ ~(reader[d] = "exited" /\ sleeper[d] = "exited")
    /\ WaitOver(d) => (reader[d] = "exited" \/ sleeper[d] = "exited")
    /\ (WaitOver(d) /\ sleeper[d] = "sleeping") => reader[d] = "exited"
    /\ (reader[d] = "exited" /\ rerr[d] = "nil") =>
         /\ nread[d] >= respLen(d)
         /\ (step = d /\ pc = "Placing") => err = "nil"
    /\ (reader[d] = "exited" /\ rerr[d] # "nil") =>
         Returning /\ step = d /\ err = rerr[d]
    /\ (sleeper[d] = "exited" /\ Returning) => (step = d /\ err = TimeoutError)

\* C12's case: the read of the second exchange returned its bytes before the
\* timer expired, both signals were pending, and select took the timer's.
C12_Witness ==
  /\ pc = "Returned"
  /\ step = 2
  /\ ReadFirst(2)
  /\ nread[2] >= respLen(2)
  /\ reader[2] = "sending"
  /\ sleeper[2] = "exited"

\* C13 as stated: placing the reply of descriptor d (of at least the expected
\* length) changes only the positions offset_d .. offset_d + actual length - 1
\* of the response buffer, each to the reply's byte at that relative index,
\* and leaves every other position unchanged.
C13_Original ==
  [][(pc = "Placing" /\ pc' # "Placing") =>
       \A p \in Positions :
         buffer'[p] =
           IF offset(step) <= p /\ p < offset(step) + nread[step]
           THEN ReplyByte(step, p - offset(step))
           ELSE buffer[p]]_vars

\* C13, amended: placing the reply of descriptor d leaves every position below
\* offset_d unchanged, sets position offset_d + k to byte k of the reply for
\* every k below its actual length (as far as the buffer reaches), and sets
\* every position from offset_d + actual length to 119 to zero: the copy takes
\* the whole 120-byte read buffer, whose tail the read left zeroed.
C13_Placement ==
  [][(pc = "Placing" /\ pc' # "Placing") =>
       \A p \in Positions :
         buffer'[p] =
           IF p < offset(step) THEN buffer[p]
           ELSE IF p < offset(step) + nread[step]
                THEN ReplyByte(step, p - offset(step))
                ELSE 0]_vars

\* C13's case: the first reply filled the whole buffer, and placing the second
\* reply, of its expected length, has zeroed the position after its region.
C13_Witness ==
  /\ pc = "Sending"
  /\ step = 3
  /\ nread[1] = BufLen
  /\ nread[2] = respLen(2)
  /\ buffer[offset(2) + respLen(2) - 1] = ReplyByte(2, respLen(2) - 1)
  /\ buffer[offset(2) + respLen(2)] = 0

\* C14: placing the reply of descriptor d never changes a byte of the response
\* buffer below offset_d, so the region of every descriptor whose reply has
\* been placed holds that reply's bytes through all later placements, up to
\* the decoding and after, whatever the lengths of the later replies.
C14_EarlierRegionsKept ==
  /\ [](\A j \in Commands : HasBeenPlaced(j) => ReplyPlaced(j))
  /\ [][(pc = "Placing" /\ pc' # "Placing") =>
          \A p \in 0..(offset(step) - 1) : buffer'[p] = buffer[p]]_vars

\* C14's case: all five replies placed, the second of them filling the whole
\* read buffer, and every region still holding its reply at the decoding.
C14_Witness ==
  /\ pc = "Decoding"
  /\ nread[2] = BufLen
  /\ \A d \in Commands : HasBeenPlaced(d) /\ ReplyPlaced(d)

\* C15 as stated: if the read of exchange i ends with an error (end of input
\* included) after fewer than the expected bytes, Status returns that read
\* error, not the timeout error and not a success, nothing of that reply is
\* copied into the response buffer, and no later request frame is written.
C15_Original ==
  \A i \in Commands :
    (reader[i] \in {"sending", "exited"} /\ rerr[i] # "nil") =>
      /\ nread[i] < respLen(i)
      /\ WaitOver(i) => (Returning /\ err = rerr[i])
      /\ \A k \in 0..(nread[i] - 1) : buffer[offset(i) + k] # ReplyByte(i, k)
      /\ Len(written) = i

\* C15, amended: a read that ends with an error after fewer than the expected
\* bytes is never taken as a success: Status returns that read error when its
\* select receives the reader's signal, and the timeout error when the timer
\* expired as well and select receives the sleeper's signal; in both cases
\* nothing of that reply is copied and no later request frame is written.
C15_ReadErrorAborts ==
  \A i \in Commands :
    (reader[i] \in {"sending", "exited"} /\ rerr[i] # "nil") =>
      /\ nread[i] < respLen(i)
      /\ step = i
      /\ pc \in {"SpawnSleeper", "Awaiting", "Closing", "Returned"}
      /\ reader[i] = "exited" => (Returning /\ err = rerr[i])
      /\ (reader[i] = "sending" /\ Returning) =>
           (sleeper[i] = "exited" /\ err = TimeoutError)
      /\ \A k \in 0..(nread[i] - 1) : buffer[offset(i) + k] # ReplyByte(i, k)
      /\ Len(written) = i
      /\ t = ZeroStatus

\* C15's case: the read of the third exchange ended with io.ErrUnexpectedEOF
\* one byte short, and Status has returned that error.
C15_Witness ==
  /\ pc = "Returned"
  /\ step = 3
  /\ reader[3] = "exited"
  /\ rerr[3] = "ErrUnexpectedEOF"
  /\ nread[3] = respLen(3) - 1
  /\ err = "ErrUnexpectedEOF"

\* C16: the regions [offset, offset + respLen) of the five descriptors are
\* pairwise disjoint, in strictly increasing order in the table, each starting
\* where the previous one ends, and together they cover the positions 0..119
\* exactly; Status never modifies the table: at any point of a call the frames
\* it has sent are those of the table.
C16_TableRegions ==
  /\ Len(queryStateCommand) = NumCommands
  /\ offset(1) = 0
  /\ \A d \in 1..(NumCommands - 1) :
       /\ offset(d) < offset(d + 1)
       /\ offset(d + 1) = offset(d) + respLen(d)
  /\ offset(NumCommands) + respLen(NumCommands) = BufLen
  /\ \A d, e \in Commands : d # e => Region(d) \cap Region(e) = {}
  /\ UNION {Region(d) : d \in Commands} = Positions
  /\ \A j \in 1..Len(written) : written[j].data = queryStateCommand[j].data

\* C16's case: a call of Status has gone through the whole table, every reply
\* of its expected length, and the five regions have filled the buffer with
\* the device's bytes.
C16_Witness ==
  /\ pc = "Returned"
  /\ err = "nil"
  /\ Len(written) = NumCommands
  /\ \A p \in Positions : \E d \in Commands :
       p \in Region(d) /\ buffer[p] = ReplyByte(d, p - offset(d))

\* C17: no helper goroutine of readWithTimeout is left in its channel send
\* once readWithTimeout has returned: the reader and the sleeper of every
\* exchange terminate when their read or sleep returns, on the success path
\* and on the timeout path.  (The channels are unbuffered and select is their
\* only receiver: a helper that comes to its send after readWithTimeout has
\* returned stays blocked in it forever.)
C17_NoBlockedHelper ==
  \A d \in Commands :
    WaitOver(d) => (reader[d] # "sending" /\ sleeper[d] # "sending")

\* C18: the transport is never closed while a read of the same call is in
\* flight, and once Status has returned no read it started is still running,
\* on the timeout path as on the success and error paths.
C18_NoReadAcrossClose ==
  (port = "closed" \/ pc = "Returned") =>
    \A d \in Commands : reader[d] # "reading"

\* C19: every access of Status to the response buffer stays inside its 120
\* bytes, whatever the length (0..120) of a reply: the buffer keeps its 120
\* positions, every copy writes positions of 0..119 only, every byte range the
\* decoding reads lies in 0..119, and each of these ranges lies inside the
\* region of a single descriptor; the decoding reads no other byte.
C19_AccessesInRange ==
  /\ DOMAIN buffer = Positions
  /\ \A d \in Commands :
       /\ nread[d] \in 0..BufLen
       /\ offset(d) \in 0..BufLen
       /\ CopyDest(d) \subseteq Positions
  /\ \A f \in FieldRanges :
       /\ 0 <= f[1] /\ f[1] < f[2] /\ f[2] <= BufLen
       /\ \E d \in Commands : f[1] \in Region(d) /\ (f[2] - 1) \in Region(d)
  /\ (Returning /\ err = "nil") =>
       LET decoded(b) == Decode(b, t.Timestamp)
       IN  t = With(Masked(buffer), decoded)

\* C19's case: Status has decoded a buffer whose last reply filled the whole
\* 120-byte read buffer, so that its copy was cut at the end of the response
\* buffer.
C19_Witness ==
  /\ pc = "Returned"
  /\ err = "nil"
  /\ nread[NumCommands] = BufLen
  /\ offset(NumCommands) + nread[NumCommands] > BufLen
  /\ t # ZeroStatus

============================================================================
